---- MODULE Spec2Model ----
(***************************************************************************)
(* duplihere (src/main.rs): detection of duplicated blocks of lines.       *)
(*                                                                         *)
(* A file is modelled by its line signatures (the Vec<u64> returned by     *)
(* file_signatures).  File ids and line numbers are zero based as in the   *)
(* code; TLA+ sequences are one based, so line i of file f is              *)
(* file_hashes[f + 1][i + 1].  An occurrence (u32, u32) is the tuple       *)
(* <<file id, start line>>.                                                *)
(***************************************************************************)
EXTENDS Integers, Sequences, FiniteSets, TLC

\* ---------------------------------------------------------------- bounds
NumFiles == 2        \* files given on the command line
MaxLen == 5          \* lines per file
NumSigs == 2         \* distinct line signatures
MaxMinLines == 2     \* largest value of the option --lines
MaxLenExtend == 3   \* lines per file when maximize_collision is applied on its own
MaxStart == 3       \* largest start line of an occurrence drawn as an input
MaxNum == 2         \* largest num_lines of a group drawn as an input
MaxOcc == 3         \* occurrences of a group drawn as an input
MaxLenShort == 3    \* lines of every file but the first

\* ------------------------------------------------------- program constants
Threads == 4         \* Options::default().threads

VARIABLES
    disk,              \* file id -> line signatures of the file on disk
    min_lines,         \* opts.lines
    json,              \* opts.json
    file_lookup,       \* FILE_LOOKUP: who holds a guard of the mutex
    file_hashes,       \* Mutex<Vec<Vec<u64>>> of main
    collision_hashes,  \* DashMap<u64, Vec<(u32, u32)>>
    pf,                \* one process_file task per file
    results_hash,      \* DashMap<u64, Collision>
    wc,                \* one walk_collision task per bucket
    final_report,      \* process_report: final_report
    printable_results, \* process_report: printable_results
    ignore_hashes,     \* the ignore set
    num_lines,         \* print_report: num_lines
    ignored,           \* print_report: ignored
    pc,                \* position of the main thread
    u_in,              \* argument of a function applied on its own
    u_out,             \* its result
    u_pc               \* how often it was applied

vars == <<disk, min_lines, json, file_lookup, file_hashes, collision_hashes, pf, results_hash, wc,
          final_report, printable_results, ignore_hashes, num_lines, ignored, pc,
          u_in, u_out, u_pc>>

pipeline_vars == <<disk, min_lines, json, file_lookup, file_hashes, collision_hashes, pf, results_hash, wc,
                   final_report, printable_results, ignore_hashes, num_lines, ignored, pc>>

unit_vars == <<u_in, u_out, u_pc>>

\* Option: None is the empty sequence, Some(x) is <<x>>
None == <<>>

Some(x) == <<x>>

FileIds == 0 .. (NumFiles - 1)

Sigs == 1 .. NumSigs

SeqsUpTo(S, n) == UNION {[1 .. k -> S] : k \in 0 .. n}

\* ------------------------------------------------------------- the hasher
\* DefaultHasher (SipHash): a deterministic function of the values written, in
\* order, that gives different u64 digests for all the different inputs drawn
\* here.  A hasher, and the digest finish() returns, is represented by the
\* sequence of the values written so far.
HashNew == <<>>

HashWrite(s, v) == Append(s, v)

\* the byte 0xff that the Hash implementation of str writes after the bytes
StrEnd == 255

\* rep.hash(&mut s) of a String: the text, then the terminator
HashWriteStr(s, rep) == HashWrite(HashWrite(s, rep), StrEnd)

\* the u64 0 among the digests: the digest of none of the inputs
Zero == <<-1>>

RECURSIVE HashFrom(_, _, _)
HashFrom(s, seq, i) ==
    IF i > Len(seq) THEN s ELSE HashFrom(HashWrite(s, seq[i]), seq, i + 1)

\* every element of seq hashed into a fresh hasher, then finish()
HashAll(seq) == HashFrom(HashNew, seq, 1)

\* ---------------------------------------------------------- per-file work
file_signatures(f) == disk[f]

RECURSIVE RollFrom(_, _, _, _, _)
RollFrom(sigs, m, i, prev_hash, rc) ==
    IF i >= Len(sigs) - m
    THEN rc
    ELSE LET digest == HashAll(SubSeq(sigs, i + 1, i + m))
         IN  RollFrom(sigs, m, i + 1, digest,
                      IF prev_hash # digest THEN Append(rc, <<digest, i>>) ELSE rc)

\* the list of (window hash, start line) of one file
rolling_hashes(sigs, m) ==
    IF Len(sigs) > m THEN RollFrom(sigs, m, 0, Zero, <<>>) ELSE <<>>

\* ------------------------------------------------------------ the extender
overlap(left, right, end) ==
    /\ left[1] = right[1]
    /\ \/ left[2] = right[2]
       \/ (right[2] >= left[2] /\ right[2] <= left[2] + end)
       \/ (left[2] >= right[2] /\ left[2] <= right[2] + end)

\* the loop counting the differing line too
RECURSIVE Walk_CountsMismatch(_, _, _, _, _, _)
Walk_CountsMismatch(l_h, r_h, l_start, r_start, offset, s) ==
    LET l_index == l_start + offset
        r_index == r_start + offset
    IN  IF l_index < Len(l_h) /\ r_index < Len(r_h)
        THEN IF l_h[l_index + 1] = r_h[r_index + 1]
             THEN Walk_CountsMismatch(l_h, r_h, l_start, r_start, offset + 1,
                                      HashWrite(s, l_h[l_index + 1]))
             ELSE <<offset + 1, s>>
        ELSE <<offset, s>>

\* the loop of maximize_collision: <<offset, hasher state>> when it breaks
RECURSIVE Walk(_, _, _, _, _, _)
Walk(l_h, r_h, l_start, r_start, offset, s) ==
    LET l_index == l_start + offset
        r_index == r_start + offset
    IN  IF l_index < Len(l_h) /\ r_index < Len(r_h)
        THEN IF l_h[l_index + 1] = r_h[r_index + 1]
             THEN Walk(l_h, r_h, l_start, r_start, offset + 1,
                       HashWrite(s, l_h[l_index + 1]))
             ELSE <<offset, s>>
        ELSE <<offset, s>>

maximize_collision(fh, l_info, r_info, m) ==
    LET l_h == fh[l_info[1] + 1]
        r_h == fh[r_info[1] + 1]
    IN  IF overlap(l_info, r_info, m)
        THEN None
        ELSE LET w == Walk(l_h, r_h, l_info[2], r_info[2], 0, HashNew)
             IN  IF overlap(l_info, r_info, w[1])
                 THEN None
                 ELSE Some([key |-> w[2], num_lines |-> w[1],
                            files |-> <<l_info, r_info>>, sig |-> Zero])

\* ------------------------------------------------------------ Collision
Digits(n) == IF n < 10 THEN 1 ELSE IF n < 100 THEN 2 ELSE 3

Pow10(d) == IF d = 1 THEN 10 ELSE IF d = 2 THEN 100 ELSE 1000

\* format!("{}{}", end, file_n), the decimal string read as a number
Format(end, file_n) == end * Pow10(Digits(file_n)) + file_n

RECURSIVE SigFrom(_, _, _, _)
SigFrom(s, files, n, i) ==
    IF i > Len(files)
    THEN s
    ELSE LET file_n == files[i][1]
             starts == files[i][2]
             end == starts + 1 + n
             rep == Format(end, file_n)
         IN  SigFrom(HashWriteStr(s, rep), files, n, i + 1)

\* Collision::_signature: the value stored in self.sig
_signature(files, n) == SigFrom(HashNew, files, n, 1)

\* a comparison by start line alone
ScrubLess_NoTieBreak(a, b) == a[2] < b[2]

\* the comparison closure of scrub: a sorts before b
ScrubLess(a, b) == IF a[2] = b[2] THEN a[1] < b[1] ELSE a[2] < b[2]

RECURSIVE InsertSorted(_, _)
InsertSorted(sorted, x) ==
    IF sorted = <<>>
    THEN <<x>>
    ELSE IF ScrubLess(x, sorted[Len(sorted)])
         THEN Append(InsertSorted(SubSeq(sorted, 1, Len(sorted) - 1), x),
                     sorted[Len(sorted)])
         ELSE Append(sorted, x)

RECURSIVE SortFrom(_, _, _)
SortFrom(files, i, acc) ==
    IF i > Len(files) THEN acc ELSE SortFrom(files, i + 1, InsertSorted(acc, files[i]))

\* self.files.sort_by(..): a stable sort by (start line, file id)
SortFiles(files) == SortFrom(files, 1, <<>>)

RECURSIVE DedupFrom(_, _, _)
DedupFrom(files, i, acc) ==
    IF i > Len(files)
    THEN acc
    ELSE DedupFrom(files, i + 1,
                   IF acc # <<>> /\ acc[Len(acc)] = files[i] THEN acc
                   ELSE Append(acc, files[i]))

\* Vec::dedup: consecutive equal elements collapse to the first
Dedup(files) == DedupFrom(files, 1, <<>>)

\* the while-let loop of remove_overlap_same_file
RECURSIVE PopLoop(_, _, _)
PopLoop(files, n, keep) ==
    IF files = <<>>
    THEN keep
    ELSE LET cur == files[Len(files)]
             rest == SubSeq(files, 1, Len(files) - 1)
         IN  IF rest # <<>>
             THEN LET next_one == rest[Len(rest)]
                  IN  IF ~(cur[2] >= next_one[2] /\ cur[2] <= next_one[2] + n)
                      THEN PopLoop(rest, n, <<cur>> \o keep)
                      ELSE PopLoop(rest, n, keep)
             ELSE <<cur>> \o keep

remove_overlap_same_file(files, n) ==
    IF \A i \in 1 .. Len(files) : files[i][1] = files[1][1]
    THEN PopLoop(files, n, <<>>)
    ELSE files

\* the signature taken before the overlaps are removed
scrub_SignsEarly(c) ==
    LET deduped == Dedup(SortFiles(c.files))
        kept == remove_overlap_same_file(deduped, c.num_lines)
    IN  [c EXCEPT !.files = kept, !.sig = _signature(deduped, c.num_lines)]

scrub(c) ==
    LET kept == remove_overlap_same_file(Dedup(SortFiles(c.files)), c.num_lines)
    IN  [c EXCEPT !.files = kept, !.sig = _signature(kept, c.num_lines)]

\* -------------------------------------------------------------- the maps
MapPut(m, k, v) == [x \in (DOMAIN m) \cup {k} |-> IF x = k THEN v ELSE m[x]]

EmptyMap == <<>>

\* ------------------------------------------------------------------ Init
\* the lines of the ignore file: Some(digest) for a line that parses as a u64,
\* None for an empty line, a comment or a line that does not parse
IgnoreFiles ==
    {[s \in Sigs |-> IF s \in K THEN Some(HashAll(<<s>>)) ELSE None] : K \in SUBSET Sigs}

\* get_ignore_hashes: the keys of the parsed lines
get_ignore_hashes(lines) ==
    {lines[i][1] : i \in {j \in 1 .. Len(lines) : lines[j] # None}}

\* main up to the parallel loop over the files: the options are read, the
\* ignore file is loaded and the maps are empty
Start(d, m, j, ignore_file) ==
    /\ disk = d
    /\ min_lines = m
    /\ json = j
    /\ file_lookup = "free"
    /\ file_hashes = [f \in 1 .. NumFiles |-> <<>>]
    /\ collision_hashes = EmptyMap
    /\ pf = [f \in FileIds |-> [pc |-> "idle", i |-> 1, rolling |-> <<>>]]
    /\ results_hash = EmptyMap
    /\ wc = EmptyMap
    /\ final_report = <<>>
    /\ printable_results = <<>>
    /\ ignore_hashes = get_ignore_hashes(ignore_file)
    /\ num_lines = 0
    /\ ignored = 0
    /\ pc = "index"

\* a corpus of one file of up to MaxLen lines and others of up to MaxLenShort
InitPipeline ==
    \E d \in {x \in [FileIds -> SeqsUpTo(Sigs, MaxLen)] :
                  \A f \in FileIds : f > 0 => Len(x[f]) <= MaxLenShort},
       m \in 0 .. MaxMinLines, j \in BOOLEAN, ignore_file \in IgnoreFiles :
       Start(d, m, j, ignore_file)

InitUnit ==
    /\ u_in = None
    /\ u_out = None
    /\ u_pc = 0

Init == InitPipeline /\ InitUnit

\* ----------------------------------------------------------- process_file
\* tasks of a parallel iterator that a pool thread has taken up and not finished
Running(tasks) == {t \in DOMAIN tasks : tasks[t].pc \notin {"idle", "done"}}

PfAdvance(t) ==
    IF t.i = Len(t.rolling) THEN [t EXCEPT !.pc = "done"]
    ELSE [t EXCEPT !.pc = "lookup", !.i = t.i + 1]

\* file_signatures, rolling_hashes, and the store into file_hashes under its lock
ProcessFileStart(fid) ==
    /\ pc = "index"
    /\ pf[fid].pc = "idle"
    /\ Cardinality(Running(pf)) < Threads
    /\ LET sigs == file_signatures(fid)
           file_rolling_hashes == rolling_hashes(sigs, min_lines)
       IN  /\ file_hashes' = [file_hashes EXCEPT ![fid + 1] = sigs]
           /\ pf' = [pf EXCEPT ![fid] =
                        [pc |-> IF file_rolling_hashes = <<>> THEN "done" ELSE "lookup",
                         i |-> 1, rolling |-> file_rolling_hashes]]
    /\ UNCHANGED <<disk, min_lines, json, file_lookup, collision_hashes, results_hash, wc, final_report,
                   printable_results, ignore_hashes, num_lines, ignored, pc>>
    /\ UNCHANGED unit_vars

\* collision_hashes.get_mut(&r_hash): Some pushes under the shard lock, None
\* returns with the lock released
ProcessFileLookup(fid) ==
    /\ pc = "index"
    /\ pf[fid].pc = "lookup"
    /\ LET e == pf[fid].rolling[pf[fid].i]
           r_hash == e[1]
           line_number == e[2]
       IN  IF r_hash \in DOMAIN collision_hashes
           THEN /\ collision_hashes' =
                       [collision_hashes EXCEPT ![r_hash] = Append(@, <<fid, line_number>>)]
                /\ pf' = [pf EXCEPT ![fid] = PfAdvance(@)]
           ELSE /\ collision_hashes' = collision_hashes
                /\ pf' = [pf EXCEPT ![fid].pc = "insert"]
    /\ UNCHANGED <<disk, min_lines, json, file_lookup, file_hashes, results_hash, wc, final_report,
                   printable_results, ignore_hashes, num_lines, ignored, pc>>
    /\ UNCHANGED unit_vars

\* collision_hashes.insert(r_hash, entry) of the None arm
ProcessFileInsert(fid) ==
    /\ pc = "index"
    /\ pf[fid].pc = "insert"
    /\ LET e == pf[fid].rolling[pf[fid].i]
           r_hash == e[1]
           line_number == e[2]
           entry == <<(<<fid, line_number>>)>>
       IN  collision_hashes' = MapPut(collision_hashes, r_hash, entry)
    /\ pf' = [pf EXCEPT ![fid] = PfAdvance(@)]
    /\ UNCHANGED <<disk, min_lines, json, file_lookup, file_hashes, results_hash, wc, final_report,
                   printable_results, ignore_hashes, num_lines, ignored, pc>>
    /\ UNCHANGED unit_vars

\* -------------------------------------------------------- find_collisions
AllDone(tasks) == \A t \in DOMAIN tasks : tasks[t].pc = "done"

\* the retain of every shard, and collision_vec
FindCollisions ==
    /\ pc = "index"
    /\ AllDone(pf)
    /\ LET retained == {h \in DOMAIN collision_hashes : Len(collision_hashes[h]) > 1}
       IN  /\ collision_hashes' = [h \in retained |-> collision_hashes[h]]
           /\ wc' = [h \in retained |->
                        [pc |-> "idle", l_idx |-> 0, r_idx |-> 0, coll |-> None]]
    /\ pc' = "walk"
    /\ UNCHANGED <<disk, min_lines, json, file_lookup, file_hashes, pf, results_hash, final_report,
                   printable_results, ignore_hashes, num_lines, ignored>>
    /\ UNCHANGED unit_vars

\* the two nested for loops of walk_collision, one iteration on
WcAdvance(t, len) ==
    IF t.r_idx + 1 < len
    THEN [t EXCEPT !.pc = "pair", !.r_idx = t.r_idx + 1, !.coll = None]
    ELSE IF t.l_idx + 1 < len - 1
         THEN [t EXCEPT !.pc = "pair", !.l_idx = t.l_idx + 1, !.r_idx = t.l_idx + 1,
                        !.coll = None]
         ELSE [t EXCEPT !.pc = "done", !.coll = None]

\* a fold that keeps only the occurrences of the new pair
Fold_Replaces(existing, coll) == [existing EXCEPT !.files = coll.files]

\* existing.files.append(&mut coll.files)
Fold(existing, coll) == [existing EXCEPT !.files = @ \o coll.files]

\* maximize_collision of one pair, then results_hash.get_mut(&coll.key)
WalkCollisionPair(h) ==
    /\ pc = "walk"
    /\ h \in DOMAIN wc
    /\ \/ wc[h].pc = "pair"
       \/ wc[h].pc = "idle" /\ Cardinality(Running(wc)) < Threads
    /\ LET collisions == collision_hashes[h]
           l_info == collisions[wc[h].l_idx + 1]
           r_info == collisions[wc[h].r_idx + 1]
           found == maximize_collision(file_hashes, l_info, r_info, min_lines)
           coll == found[1]
       IN  IF found = None
           THEN /\ results_hash' = results_hash
                /\ wc' = [wc EXCEPT ![h] = WcAdvance(@, Len(collisions))]
           ELSE IF coll.key \in DOMAIN results_hash
                THEN /\ results_hash' =
                            [results_hash EXCEPT ![coll.key] = Fold(@, coll)]
                     /\ wc' = [wc EXCEPT ![h] = WcAdvance(@, Len(collisions))]
                ELSE /\ results_hash' = results_hash
                     /\ wc' = [wc EXCEPT ![h].pc = "insert", ![h].coll = coll]
    /\ UNCHANGED <<disk, min_lines, json, file_lookup, file_hashes, collision_hashes, pf, final_report,
                   printable_results, ignore_hashes, num_lines, ignored, pc>>
    /\ UNCHANGED unit_vars

\* results_hash.insert(coll.key, coll) of the None arm
WalkCollisionInsert(h) ==
    /\ pc = "walk"
    /\ h \in DOMAIN wc
    /\ wc[h].pc = "insert"
    /\ results_hash' = MapPut(results_hash, wc[h].coll.key, wc[h].coll)
    /\ wc' = [wc EXCEPT ![h] = WcAdvance(@, Len(collision_hashes[h]))]
    /\ UNCHANGED <<disk, min_lines, json, file_lookup, file_hashes, collision_hashes, pf, final_report,
                   printable_results, ignore_hashes, num_lines, ignored, pc>>
    /\ UNCHANGED unit_vars

\* --------------------------------------------------------- process_report
RECURSIVE PermsOf(_)
PermsOf(S) ==
    IF S = {} THEN {<<>>}
    ELSE UNION {{<<x>> \o p : p \in PermsOf(S \ {x})} : x \in S}

\* the first sort ascending
ReportBefore_Ascending(a, b) == a.num_lines <= b.num_lines

\* the comparison closure of the first sort: a may stand before b
ReportBefore(a, b) == a.num_lines >= b.num_lines

\* the comparison closure of the last sort: a may stand before b
PrintBefore(a, b) ==
    IF a.num_lines = b.num_lines
    THEN IF a.files[1][2] = b.files[1][2]
         THEN a.files[1][1] <= b.files[1][1]
         ELSE a.files[1][2] < b.files[1][2]
    ELSE a.num_lines < b.num_lines

RECURSIVE KeepFirst(_, _, _, _)
KeepFirst(report, i, chunk_processed, kept) ==
    IF i > Len(report)
    THEN kept
    ELSE LET ea == report[i]
             cs == ea.sig
         IN  IF cs \notin chunk_processed
             THEN KeepFirst(report, i + 1, chunk_processed \cup {cs}, Append(kept, ea))
             ELSE KeepFirst(report, i + 1, chunk_processed, kept)

\* results_hash.into_iter() collected, then par_sort_unstable_by num_lines descending:
\* the groups in any order the comparison allows
ProcessReportSort ==
    /\ pc = "walk"
    /\ AllDone(wc)
    /\ \E order \in PermsOf(DOMAIN results_hash) :
          /\ \A i, j \in 1 .. Len(order) :
                i < j => ReportBefore(results_hash[order[i]], results_hash[order[j]])
          /\ final_report' = [i \in 1 .. Len(order) |-> results_hash[order[i]]]
    /\ pc' = "scrub"
    /\ UNCHANGED <<disk, min_lines, json, file_lookup, file_hashes, collision_hashes, pf, results_hash, wc,
                   printable_results, ignore_hashes, num_lines, ignored>>
    /\ UNCHANGED unit_vars

\* final_report.par_iter_mut().for_each(|ea| ea.scrub())
ProcessReportScrub ==
    /\ pc = "scrub"
    /\ final_report' = [i \in 1 .. Len(final_report) |-> scrub(final_report[i])]
    /\ pc' = "dedup"
    /\ UNCHANGED <<disk, min_lines, json, file_lookup, file_hashes, collision_hashes, pf, results_hash, wc,
                   printable_results, ignore_hashes, num_lines, ignored>>
    /\ UNCHANGED unit_vars

\* the sequential pass over final_report with chunk_processed
ProcessReportDedup ==
    /\ pc = "dedup"
    /\ printable_results' = KeepFirst(final_report, 1, {}, <<>>)
    /\ pc' = "sort"
    /\ UNCHANGED <<disk, min_lines, json, file_lookup, file_hashes, collision_hashes, pf, results_hash, wc,
                   final_report, ignore_hashes, num_lines, ignored>>
    /\ UNCHANGED unit_vars

\* printable_results.par_sort_unstable_by(..)
ProcessReportPrintSort ==
    /\ pc = "sort"
    /\ \E order \in PermsOf(1 .. Len(printable_results)) :
          /\ \A i, j \in 1 .. Len(order) :
                i < j => PrintBefore(printable_results[order[i]], printable_results[order[j]])
          /\ printable_results' =
                [i \in 1 .. Len(order) |-> printable_results[order[i]]]
    /\ pc' = "print"
    /\ UNCHANGED <<disk, min_lines, json, file_lookup, file_hashes, collision_hashes, pf, results_hash, wc,
                   final_report, ignore_hashes, num_lines, ignored>>
    /\ UNCHANGED unit_vars

\* the loop counting every copy of a group, the first one too
RECURSIVE Count_EveryCopy(_, _, _, _, _)
Count_EveryCopy(results, ign, i, lines, skipped) ==
    IF i > Len(results)
    THEN <<lines, skipped>>
    ELSE LET p == results[i]
         IN  IF p.key \in ign
             THEN Count_EveryCopy(results, ign, i + 1, lines, skipped + 1)
             ELSE Count_EveryCopy(results, ign, i + 1,
                                  lines + p.num_lines * Len(p.files), skipped)

\* the for loop of print_report: <<num_lines, ignored>>
RECURSIVE Count(_, _, _, _, _)
Count(results, ign, i, lines, skipped) ==
    IF i > Len(results)
    THEN <<lines, skipped>>
    ELSE LET p == results[i]
         IN  IF p.key \in ign
             THEN Count(results, ign, i + 1, lines, skipped + 1)
             ELSE Count(results, ign, i + 1,
                        lines + p.num_lines * (Len(p.files) - 1), skipped)

\* serde_json::to_string_pretty(&r): Collision::serialize runs for each group and
\* calls FILE_LOOKUP.lock(), which returns only when no guard of the mutex is
\* alive; with no group it is not called
Serializes(results, locked) == Len(results) = 0 \/ ~locked

\* print_report: <<num_lines, ignored, whether the call returns>>.  The guard
\* file_lookup_locked is taken before the loop and is alive to the end of the
\* function, so in JSON mode the lock of the serializer, on the same thread,
\* never returns.
print_report(results, j, ign) ==
    LET r == Count(results, ign, 1, 0, 0)
        file_lookup_locked == TRUE
    IN  <<r[1], r[2], ~j \/ Serializes(results, file_lookup_locked)>>

\* process_report calls print_report: it returns with the guard dropped, or the
\* main thread stays blocked in it with the guard held
PrintReport ==
    /\ pc = "print"
    /\ LET r == print_report(printable_results, json, ignore_hashes)
       IN  /\ num_lines' = r[1]
           /\ ignored' = r[2]
           /\ pc' = IF r[3] THEN "done" ELSE "blocked"
           /\ file_lookup' = IF r[3] THEN "free" ELSE "print_report"
    /\ UNCHANGED <<disk, min_lines, json, file_hashes, collision_hashes, pf, results_hash, wc,
                   final_report, printable_results, ignore_hashes>>
    /\ UNCHANGED unit_vars

\* ------------------------------------------------------------- the program
ProcessReport ==
    \/ ProcessReportSort
    \/ ProcessReportScrub
    \/ ProcessReportDedup
    \/ ProcessReportPrintSort
    \/ PrintReport

Next ==
    \/ \E fid \in FileIds : ProcessFileStart(fid)
    \/ \E fid \in FileIds : ProcessFileLookup(fid)
    \/ \E fid \in FileIds : ProcessFileInsert(fid)
    \/ FindCollisions
    \/ \E h \in DOMAIN wc : WalkCollisionPair(h)
    \/ \E h \in DOMAIN wc : WalkCollisionInsert(h)
    \/ ProcessReport

Spec == Init /\ [][Next]_vars

\* ---------------------------------------- functions applied on their own
\* the pipeline at rest, while one function is applied to drawn arguments
PipelineOff ==
    /\ disk = [f \in FileIds |-> <<>>]
    /\ min_lines = 1
    /\ json = FALSE
    /\ file_lookup = "free"
    /\ file_hashes = [f \in 1 .. NumFiles |-> <<>>]
    /\ collision_hashes = EmptyMap
    /\ pf = [f \in FileIds |-> [pc |-> "done", i |-> 1, rolling |-> <<>>]]
    /\ results_hash = EmptyMap
    /\ wc = EmptyMap
    /\ final_report = <<>>
    /\ printable_results = <<>>
    /\ ignore_hashes = {}
    /\ num_lines = 0
    /\ ignored = 0
    /\ pc = "unit"

\* maximize_collision on two files and any two occurrences in them
InitExtend ==
    /\ PipelineOff
    /\ u_in \in [fh : [1 .. 2 -> SeqsUpTo(Sigs, MaxLenExtend)],
                 l : {0} \X (0 .. MaxLenExtend),
                 r : {0, 1} \X (0 .. MaxLenExtend),
                 m : 0 .. MaxMinLines]
    /\ u_out = None
    /\ u_pc = 0

Extend ==
    /\ pc = "unit"
    /\ u_pc = 0
    /\ u_out' = maximize_collision(u_in.fh, u_in.l, u_in.r, u_in.m)
    /\ u_pc' = 1
    /\ UNCHANGED u_in
    /\ UNCHANGED pipeline_vars

SpecExtend == InitExtend /\ [][Extend]_vars

\* occurrences and groups drawn as inputs
Occurrences == (0 .. 1) \X (0 .. MaxStart)

OccLists == UNION {[1 .. k -> Occurrences] : k \in 1 .. MaxOcc}

\* scrub on a group and on the same group with its occurrences in another order
InitScrub ==
    /\ PipelineOff
    /\ \E files \in OccLists, n \in 0 .. MaxNum, key \in {HashNew} :
          \E order \in PermsOf(1 .. Len(files)) :
             u_in = <<[key |-> key, num_lines |-> n, files |-> files, sig |-> Zero],
                      [key |-> key, num_lines |-> n,
                       files |-> [i \in 1 .. Len(files) |-> files[order[i]]], sig |-> Zero]>>
    /\ u_out = None
    /\ u_pc = 0

\* ea.scrub() on both; u_out keeps the groups after each application
Scrub ==
    /\ pc = "unit"
    /\ u_pc < 2
    /\ LET cur == IF u_pc = 0 THEN u_in ELSE u_out[u_pc]
       IN  u_out' = Append(u_out, <<scrub(cur[1]), scrub(cur[2])>>)
    /\ u_pc' = u_pc + 1
    /\ UNCHANGED u_in
    /\ UNCHANGED pipeline_vars

SpecScrub == InitScrub /\ [][Scrub]_vars

\* ------------------------------------------------------------ the FileId
\* the paths a run can be given, and how many register_file calls are made
NumPaths == 3
MaxCalls == 5

Paths == 1 .. NumPaths

\* FileId::new()
FileId_new == [num_files |-> 0, index_to_name |-> <<>>, name_to_index |-> EmptyMap]

\* register_file that pushes the path without looking it up first
register_file_NoLookup(reg, file_name) ==
    <<[num_files |-> reg.num_files + 1,
       index_to_name |-> Append(reg.index_to_name, file_name),
       name_to_index |-> MapPut(reg.name_to_index, file_name, reg.num_files)],
      Some(reg.num_files)>>

\* FileId::register_file: the registry after the call and the returned
\* Option<u32>; num_files stays below MaxCalls, far from u32::MAX, so
\* checked_add always yields Some(v)
register_file(reg, file_name) ==
    IF file_name \in DOMAIN reg.name_to_index
    THEN <<reg, None>>
    ELSE LET num == reg.num_files
         IN  <<[num_files |-> reg.num_files + 1,
                index_to_name |-> Append(reg.index_to_name, file_name),
                name_to_index |-> MapPut(reg.name_to_index, file_name, reg.num_files)],
               Some(num)>>

\* FileId::id_to_name: index_to_name[index as usize]
id_to_name(reg, index) == reg.index_to_name[index + 1]

\* FileId::number_files
number_files(reg) == reg.num_files

\* a fresh registry; u_out is the registry, u_in the last call made on it
InitRegistry ==
    /\ PipelineOff
    /\ u_in = None
    /\ u_out = FileId_new
    /\ u_pc = 0

\* one call of register_file with any path, registered before or not
RegisterFile ==
    /\ pc = "unit"
    /\ u_pc < MaxCalls
    /\ \E file_name \in Paths :
          LET res == register_file(u_out, file_name)
          IN  /\ u_out' = res[1]
              /\ u_in' = Some([file_name |-> file_name, before |-> u_out, ret |-> res[2]])
    /\ u_pc' = u_pc + 1
    /\ UNCHANGED pipeline_vars

SpecRegistry == InitRegistry /\ [][RegisterFile]_vars

\* ------------------------------------------- signatures over many files
\* file ids of one and of two decimal digits, and the start lines drawn
MaxSigStart == 19

SigFileIds == {0, 1, 10, 11}

\* a block of n lines, each of signature line, found at one start line in two
\* files, as maximize_collision returns it: the pair in either order
HeaderGroups(line) ==
    {[key |-> HashAll([i \in 1 .. q[4] |-> line]), num_lines |-> q[4],
      files |-> <<<<q[1], q[3]>>, <<q[2], q[3]>>>>, sig |-> Zero] :
        q \in {x \in SigFileIds \X SigFileIds \X (0 .. MaxSigStart) \X (1 .. MaxNum) :
                  x[1] # x[2]}}

\* process_report on a result map of two such groups in different files
InitSignature ==
    /\ disk = [f \in FileIds |-> <<>>]
    /\ min_lines = 1
    /\ json \in BOOLEAN
    /\ file_lookup = "free"
    /\ file_hashes = [f \in 1 .. NumFiles |-> <<>>]
    /\ collision_hashes = EmptyMap
    /\ pf = [f \in FileIds |-> [pc |-> "done", i |-> 1, rolling |-> <<>>]]
    /\ \E g1 \in HeaderGroups(1), g2 \in HeaderGroups(2) :
          /\ {g1.files[1][1], g1.files[2][1]} \cap {g2.files[1][1], g2.files[2][1]} = {}
          /\ results_hash = (g1.key :> g1) @@ (g2.key :> g2)
    /\ wc = EmptyMap
    /\ final_report = <<>>
    /\ printable_results = <<>>
    /\ ignore_hashes = {}
    /\ num_lines = 0
    /\ ignored = 0
    /\ pc = "walk"
    /\ InitUnit

SpecSignature == InitSignature /\ [][ProcessReport]_vars

\* ------------------------------------------------ one long file, indexed
\* the whole pipeline on a corpus of one file of MaxLongLen lines and an empty one
MaxLongLen == 10

InitLongFile ==
    /\ \E d \in {x \in [FileIds -> SeqsUpTo(Sigs, MaxLongLen)] :
                     /\ Len(x[0]) = MaxLongLen
                     /\ \A f \in FileIds \ {0} : x[f] = <<>>},
          m \in 0 .. MaxMinLines, j \in BOOLEAN, ignore_file \in IgnoreFiles :
          Start(d, m, j, ignore_file)
    /\ InitUnit

SpecLongFile == InitLongFile /\ [][Next]_vars

\* ================================================================ claims
Elems(seq) == {seq[i] : i \in 1 .. Len(seq)}

\* the lines [start, start + n) of two occurrences of one file intersect
RangesIntersect(a, b, n) ==
    a[1] = b[1] /\ a[2] < b[2] + n /\ b[2] < a[2] + n

\* files 0 and 1 share the block of n lines at lines a and b, the lines of the
\* block differ from each other, and every other line of the corpus occurs once
SharedBlock(a, b, n) ==
    /\ a + n <= Len(disk[0])
    /\ b + n <= Len(disk[1])
    /\ SubSeq(disk[0], a + 1, a + n) = SubSeq(disk[1], b + 1, b + n)
    /\ \A i, j \in 1 .. n : i # j => disk[0][a + i] # disk[0][a + j]
    /\ \A f \in FileIds : \A i \in 1 .. Len(disk[f]) :
          LET inBlock(g, k) == \/ g = 0 /\ k > a /\ k <= a + n
                               \/ g = 1 /\ k > b /\ k <= b + n
          IN  ~inBlock(f, i) =>
                 \A g \in FileIds : \A k \in 1 .. Len(disk[g]) :
                    (g # f \/ k # i) => disk[g][k] # disk[f][i]
    /\ \A f \in FileIds \ {0, 1} : disk[f] = <<>>

\* C1: when two files share one block of n >= min_lines lines and nothing else,
\* the final report is exactly one group of n lines with the two occurrences of
\* the block, wherever the block lies in the files.
C1_SharedBlockReported ==
    pc \in {"done", "blocked"} =>
       \A a, b \in 0 .. MaxLen : \A n \in min_lines .. MaxLen :
          (n >= 1 /\ SharedBlock(a, b, n)) =>
             /\ Len(printable_results) = 1
             /\ printable_results[1].num_lines = n
             /\ Len(printable_results[1].files) = 2
             /\ Elems(printable_results[1].files) = {<<0, a>>, <<1, b>>}

\* the lines [start, start + n) of occurrence o, as far as the file goes
TextAt(o, n) == SubSeq(file_hashes[o[1] + 1], o[2] + 1, o[2] + n)

\* every occurrence of the group holds the same num_lines lines
SameText(g) ==
    \A i \in 1 .. Len(g.files) :
       /\ g.files[i][2] + g.num_lines <= Len(file_hashes[g.files[i][1] + 1])
       /\ TextAt(g.files[i], g.num_lines) = TextAt(g.files[1], g.num_lines)

\* C2: after scrub no group holds two occurrences of one file whose line ranges
\* [start, start + num_lines) intersect, whether its occurrences lie in one file
\* or in several.  Stated for the groups of the aggregation whose occurrences all
\* hold the same text (no key collision has merged different blocks).
C2_NoSameFileOverlap ==
    pc \in {"dedup", "sort", "print", "done", "blocked"} =>
       \A g \in 1 .. Len(final_report) :
          SameText(final_report[g]) =>
             \A i, j \in 1 .. Len(final_report[g].files) :
                i # j => ~RangesIntersect(final_report[g].files[i],
                                          final_report[g].files[j],
                                          final_report[g].num_lines)

\* C3: every group maximize_collision returns has num_lines >= min_lines, for
\* any two occurrences that can stand in one bucket: each is the start of a
\* whole window of min_lines lines that rolling_hashes indexes, whether the two
\* windows hold the same lines or only the same hash
C3_MinimumLength ==
    (/\ pc = "unit"
     /\ u_pc = 1
     /\ u_in.l[2] + u_in.m < Len(u_in.fh[u_in.l[1] + 1])
     /\ u_in.r[2] + u_in.m < Len(u_in.fh[u_in.r[1] + 1])
     /\ u_out # None)
    => u_out[1].num_lines >= u_in.m

\* C5: once every process_file task has finished, each entry of each file's
\* rolling-hash list is in the bucket of its window hash.
C5_NoOccurrenceLost ==
    (pc = "index" /\ AllDone(pf)) =>
       \A fid \in FileIds :
          LET rolling == rolling_hashes(disk[fid], min_lines)
          IN  \A i \in 1 .. Len(rolling) :
                 /\ rolling[i][1] \in DOMAIN collision_hashes
                 /\ <<fid, rolling[i][2]>> \in Elems(collision_hashes[rolling[i][1]])

\* C6: for every interleaving of the walk_collision tasks, once all of them have
\* finished the group stored under a key holds the occurrences of every pair
\* that extended to that key: a fold extends the list and no stored group is
\* overwritten.
C6_NoPairLost ==
    (pc = "walk" /\ AllDone(wc)) =>
       \A h \in DOMAIN wc :
          LET collisions == collision_hashes[h]
          IN  \A l_idx \in 0 .. (Len(collisions) - 2) :
                 \A r_idx \in l_idx .. (Len(collisions) - 1) :
                    LET found == maximize_collision(file_hashes, collisions[l_idx + 1],
                                                    collisions[r_idx + 1], min_lines)
                    IN  found # None =>
                           /\ found[1].key \in DOMAIN results_hash
                           /\ Elems(found[1].files) \subseteq
                                 Elems(results_hash[found[1].key].files)

\* several buckets were walked, several groups are stored and one of them took
\* the fold of a second pair
C6_Witness ==
    /\ pc = "walk"
    /\ AllDone(wc)
    /\ Cardinality(DOMAIN wc) >= 2
    /\ Cardinality(DOMAIN results_hash) >= 2
    /\ \E k \in DOMAIN results_hash : Len(results_hash[k].files) >= 4

\* C4: a successful maximize_collision returns the length of the longest common
\* run from the two start lines: the lines at every offset below num_lines are
\* inside both files and equal, and at offset num_lines a file has ended or the
\* lines differ.
C4_LongestCommonRun ==
    (u_pc = 1 /\ u_out # None) =>
       LET l_h == u_in.fh[u_in.l[1] + 1]
           r_h == u_in.fh[u_in.r[1] + 1]
           n == u_out[1].num_lines
       IN  /\ \A i \in 0 .. (n - 1) :
                 /\ u_in.l[2] + i < Len(l_h)
                 /\ u_in.r[2] + i < Len(r_h)
                 /\ l_h[u_in.l[2] + i + 1] = r_h[u_in.r[2] + i + 1]
           /\ \/ u_in.l[2] + n >= Len(l_h)
              \/ u_in.r[2] + n >= Len(r_h)
              \/ l_h[u_in.l[2] + n + 1] # r_h[u_in.r[2] + n + 1]

\* a run longer than min_lines that a differing line ends, inside both files
C4_Witness ==
    /\ u_pc = 1
    /\ u_out # None
    /\ u_out[1].num_lines > u_in.m
    /\ u_in.l[2] + u_out[1].num_lines < Len(u_in.fh[u_in.l[1] + 1])
    /\ u_in.r[2] + u_out[1].num_lines < Len(u_in.fh[u_in.r[1] + 1])

\* C9: scrub on two orders of the same occurrence list (same num_lines) yields
\* the same occurrence list and the same signature.
C9_OrderInvariant ==
    u_pc >= 1 =>
       /\ u_out[1][1].files = u_out[1][2].files
       /\ u_out[1][1].sig = u_out[1][2].sig

\* two different orders of a list with a tie on the start line and an overlap in
\* one file, scrubbed
C9_Witness ==
    /\ u_pc = 1
    /\ u_in[1].files # u_in[2].files
    /\ \E i, j \in 1 .. Len(u_in[1].files) :
          /\ u_in[1].files[i][2] = u_in[1].files[j][2]
          /\ u_in[1].files[i][1] # u_in[1].files[j][1]
    /\ Len(u_out[1][1].files) > 1

\* C10: scrub applied to a scrubbed group changes nothing: occurrences, num_lines,
\* key and signature stay as they are.
C10_ScrubIdempotent ==
    u_pc = 2 =>
       /\ u_out[2][1].files = u_out[1][1].files
       /\ u_out[2][1].num_lines = u_out[1][1].num_lines
       /\ u_out[2][1].key = u_out[1][1].key
       /\ u_out[2][1].sig = u_out[1][1].sig

\* a group of one file whose first scrub removed an overlapping occurrence and
\* kept more than one, scrubbed twice
C10_Witness ==
    /\ u_pc = 2
    /\ \A i \in 1 .. Len(u_in[1].files) : u_in[1].files[i][1] = u_in[1].files[1][1]
    /\ Len(u_out[1][1].files) < Cardinality(Elems(u_in[1].files))
    /\ Len(u_out[1][1].files) > 1

\* the groups of a report that the set ign does not name, num_lines * (copies - 1)
\* summed over them
RECURSIVE DuplicatedLines(_, _)
DuplicatedLines(results, counted) ==
    IF counted = {}
    THEN 0
    ELSE LET i == CHOOSE x \in counted : TRUE
         IN  results[i].num_lines * (Len(results[i].files) - 1)
             + DuplicatedLines(results, counted \ {i})

\* C7 as claimed: a final group is counted in num_ignored and left out of the
\* duplicated-line total exactly when its signature sig is in the ignore set.
C7_IgnoredBySig ==
    pc \in {"done", "blocked"} =>
       LET named == {i \in 1 .. Len(printable_results) :
                        printable_results[i].sig \in ignore_hashes}
       IN  /\ ignored = Cardinality(named)
           /\ num_lines = DuplicatedLines(printable_results,
                                          (1 .. Len(printable_results)) \ named)

\* C7 as the code has it: a final group is counted in num_ignored and left out of
\* the duplicated-line total exactly when its content key is in the ignore set;
\* the total is the sum of num_lines * (occurrence_count - 1) over the others.
C7_IgnoredByKey ==
    pc \in {"done", "blocked"} =>
       LET named == {i \in 1 .. Len(printable_results) :
                        printable_results[i].key \in ignore_hashes}
       IN  /\ ignored = Cardinality(named)
           /\ num_lines = DuplicatedLines(printable_results,
                                          (1 .. Len(printable_results)) \ named)

\* a report with a group the ignore set names by key and not by signature, and a
\* counted group of three occurrences
C7_Witness ==
    /\ pc = "done"
    /\ \E i, j \in 1 .. Len(printable_results) :
          /\ printable_results[i].key \in ignore_hashes
          /\ printable_results[i].sig \notin ignore_hashes
          /\ printable_results[j].key \notin ignore_hashes
          /\ Len(printable_results[j].files) = 3
          /\ printable_results[j].num_lines > 0
    /\ ignored = 1
    /\ num_lines > 0

\* C8: after the dedup pass no two kept groups share a signature, every signature
\* of a canonicalized group is that of a kept group, and a kept group is a
\* canonicalized group with the largest num_lines of its signature.
C8_DedupBySignature ==
    pc \in {"sort", "print", "done", "blocked"} =>
       /\ \A i, j \in 1 .. Len(printable_results) :
             i # j => printable_results[i].sig # printable_results[j].sig
       /\ {printable_results[i].sig : i \in 1 .. Len(printable_results)}
             = {final_report[i].sig : i \in 1 .. Len(final_report)}
       /\ \A i \in 1 .. Len(printable_results) :
             /\ printable_results[i] \in Elems(final_report)
             /\ \A j \in 1 .. Len(final_report) :
                   final_report[j].sig = printable_results[i].sig
                      => final_report[j].num_lines <= printable_results[i].num_lines

\* two canonicalized groups of one signature and different lengths, one kept
C8_Witness ==
    /\ pc = "sort"
    /\ Len(final_report) = 2
    /\ final_report[1].sig = final_report[2].sig
    /\ final_report[1].num_lines # final_report[2].num_lines
    /\ Len(printable_results) = 1

\* C11: after any sequence of register_file calls the registry is consistent
\* (num_files = length of index_to_name = size of name_to_index, and
\* name_to_index[index_to_name[i]] = i for every id i); a new path gets the
\* next id in order of first registration, no assigned id changes its path,
\* and registering a known path returns no id and leaves the registry as it was
C11_RegistryConsistent ==
    pc = "unit" =>
       /\ number_files(u_out) = Len(u_out.index_to_name)
       /\ number_files(u_out) = Cardinality(DOMAIN u_out.name_to_index)
       /\ \A i \in 0 .. (number_files(u_out) - 1) :
             /\ id_to_name(u_out, i) \in DOMAIN u_out.name_to_index
             /\ u_out.name_to_index[id_to_name(u_out, i)] = i
       /\ u_in # None =>
             LET call == u_in[1]
                 known == call.file_name \in DOMAIN call.before.name_to_index
             IN  /\ known => (call.ret = None /\ u_out = call.before)
                 /\ ~known => /\ call.ret = Some(number_files(call.before))
                              /\ number_files(u_out) = number_files(call.before) + 1
                              /\ id_to_name(u_out, number_files(call.before)) = call.file_name
                 /\ \A i \in 0 .. (number_files(call.before) - 1) :
                       id_to_name(u_out, i) = id_to_name(call.before, i)

\* two paths hold the ids 0 and 1 and the last call registered one of them again
C11_Witness ==
    /\ pc = "unit"
    /\ u_in # None
    /\ u_pc >= 3
    /\ number_files(u_out) = 2
    /\ u_in[1].ret = None
    /\ u_in[1].file_name = id_to_name(u_out, 0)

\* C12: overlap(a, b, n), n >= 1, is true exactly when a and b lie in one file
\* and the line ranges [a.start, a.start + n) and [b.start, b.start + n) share a
\* line; maximize_collision returns None (on min_lines before the walk, or on
\* the walked offset after it) only for such a pair
C12_OverlapIsIntersection ==
    (pc = "unit" /\ u_pc = 1 /\ u_in.m >= 1) =>
       LET w == Walk(u_in.fh[u_in.l[1] + 1], u_in.fh[u_in.r[1] + 1],
                     u_in.l[2], u_in.r[2], 0, HashNew)
       IN  /\ overlap(u_in.l, u_in.r, u_in.m) <=> RangesIntersect(u_in.l, u_in.r, u_in.m)
           /\ u_out = None =>
                 \/ RangesIntersect(u_in.l, u_in.r, u_in.m)
                 \/ RangesIntersect(u_in.l, u_in.r, w[1])

\* the ordered (end line = start + num_lines + 1, FileId) pairs of a group
EndPairs(g) ==
    [i \in 1 .. Len(g.files) |-> <<g.files[i][2] + g.num_lines + 1, g.files[i][1]>>]

\* C13: with a collision-free hash (two signatures are equal only when the
\* hasher was fed the same strings) two scrubbed groups have the same signature
\* only if their ordered (end line, FileId) pairs are identical, so the dedup
\* never discards a group whose pairs differ from those of the group it kept
C13_SignatureIdentifiesPairs ==
    pc \in {"sort", "print", "done", "blocked"} =>
       \A i \in 1 .. Len(final_report) :
          LET g == final_report[i]
          IN  \A j \in 1 .. Len(printable_results) :
                 LET p == printable_results[j]
                 IN  p.sig = g.sig => EndPairs(p) = EndPairs(g)

\* C14: every group of the final report lists at least two occurrences, so
\* num_lines * (occurrences - 1) is positive: scrub (exact duplicates removed,
\* then same-file overlaps) never leaves fewer than two occurrences of a group
\* stored by the aggregation.  Stated for the groups whose occurrences, as the
\* aggregation stored them, all hold the same text of at least one line.
C14_AtLeastTwoOccurrences ==
    pc \in {"sort", "print", "done", "blocked"} =>
       \A i \in 1 .. Len(printable_results) :
          LET g == printable_results[i]
          IN  (SameText(results_hash[g.key]) /\ g.num_lines >= 1) =>
                 /\ Len(g.files) >= 2
                 /\ g.num_lines * (Len(g.files) - 1) > 0

====
